---------------------------- MODULE Spec2Model ----------------------------
(***************************************************************************)
(* A model of whatlies' EmbeddingSet (src/whatlies/embeddingset.py): the    *)
(* collection of named vectors, its construction, its elementwise algebra, *)
(* the Gram-Schmidt orthogonalisation against another collection, merge,   *)
(* filter, add_property, average and the similarity queries.               *)
(*                                                                         *)
(* Python objects are modelled as they are: a dict is an insertion-ordered *)
(* sequence of <<key, value>> pairs living in a heap cell, an EmbeddingSet *)
(* is a record holding a label and a reference to such a cell, so that two *)
(* collections sharing one dict is something the model can express.        *)
(* Vector components are exact rationals <<numerator, denominator>>.       *)
(* The Embedding class (whatlies/embedding.py) is not among the sources:   *)
(* its operations are modelled from section 4.1 of the specification.      *)
(***************************************************************************)
EXTENDS Integers, Sequences, FiniteSets, TLC

VARIABLES heap, self, other, result, last, depth

vars == <<heap, self, other, result, last, depth>>

-----------------------------------------------------------------------------
(* Bounds of the model. *)

\* The longest list, mapping or names/vectors array handed to a constructor.
MaxLen == 2

\* How many times a caller feeds a returned collection into the next call.
MaxOps == 1

-----------------------------------------------------------------------------
(* Exact rational arithmetic: a number is <<n, d>> with d > 0 in lowest    *)
(* terms; NaN is 0/0, what numpy yields for the mean of nothing.           *)

Abs(i) == IF i < 0 THEN -i ELSE i

RECURSIVE GCD(_, _)
GCD(a, b) == IF b = 0 THEN a ELSE GCD(b, a % b)

Rat(n, d) ==
    IF n = 0 THEN <<0, 1>>
    ELSE LET s == IF d < 0 THEN -1 ELSE 1
             g == GCD(Abs(n), Abs(d))
         IN  <<(s * n) \div g, (s * d) \div g>>

NaN == <<0, 0>>

RAdd(x, y) == Rat(x[1] * y[2] + y[1] * x[2], x[2] * y[2])
RSub(x, y) == Rat(x[1] * y[2] - y[1] * x[2], x[2] * y[2])
RMul(x, y) == Rat(x[1] * y[1], x[2] * y[2])
RDiv(x, y) == Rat(x[1] * y[2], x[2] * y[1])
RLess(x, y) == x[1] * y[2] < y[1] * x[2]
RAbs(x) == <<Abs(x[1]), x[2]>>
RMax(x, y) == IF RLess(x, y) THEN y ELSE x
Zero == <<0, 1>>

\* A vector of integers as a vector of rationals.
ToVec(ints) == [i \in 1..Len(ints) |-> Rat(ints[i], 1)]

RECURSIVE RSum(_)
RSum(s) == IF s = <<>> THEN Zero ELSE RAdd(s[1], RSum(Tail(s)))

Dot(v, w) == RSum([i \in 1..Len(v) |-> RMul(v[i], w[i])])
VAdd(v, w) == [i \in 1..Len(v) |-> RAdd(v[i], w[i])]
VSub(v, w) == [i \in 1..Len(v) |-> RSub(v[i], w[i])]
VScale(c, v) == [i \in 1..Len(v) |-> RMul(c, v[i])]

-----------------------------------------------------------------------------
(* Embedding: a named vector.  orig is the label it was created with,      *)
(* props the attributes add_property has set on it.                        *)

Embedding(name, vector) ==
    [name |-> name, vector |-> vector, orig |-> name, props |-> {}]

\* The outcome of an operation: a value, or the error it raised.
Ok(v) == [status |-> "ok", value |-> v]
Err(kind) == [status |-> kind, value |-> <<>>]

\* e1 + e2
emb_add(a, b) ==
    IF Len(a.vector) # Len(b.vector) THEN Err("DimensionMismatch")
    ELSE Ok([a EXCEPT !.name = "(" \o a.name \o " + " \o b.name \o ")",
                      !.vector = VAdd(a.vector, b.vector)])

\* e1 - e2
emb_sub(a, b) ==
    IF Len(a.vector) # Len(b.vector) THEN Err("DimensionMismatch")
    ELSE Ok([a EXCEPT !.name = "(" \o a.name \o " - " \o b.name \o ")",
                      !.vector = VSub(a.vector, b.vector)])

\* The vector of e1 >> e2: ((a.b)/(b.b)) * b.
project(v, w) == VScale(RDiv(Dot(v, w), Dot(w, w)), w)

\* e1 >> e2
emb_rshift(a, b) ==
    IF Len(a.vector) # Len(b.vector) THEN Err("DimensionMismatch")
    ELSE IF Dot(b.vector, b.vector) = Zero THEN Err("ZeroVectorError")
    ELSE Ok([a EXCEPT !.name = a.name \o " > " \o b.name,
                      !.vector = project(a.vector, b.vector)])

\* e1 | e2
emb_or(a, b) ==
    IF Len(a.vector) # Len(b.vector) THEN Err("DimensionMismatch")
    ELSE IF Dot(b.vector, b.vector) = Zero THEN Err("ZeroVectorError")
    ELSE Ok([a EXCEPT !.name = a.name \o " | " \o b.name,
                      !.vector = VSub(a.vector, project(a.vector, b.vector))])

\* e.add_property(name, func): a copy of e with the attribute set.
emb_add_property(e, name, val) ==
    [e EXCEPT !.props = {p \in e.props : p[1] # name} \cup {<<name, val>>}]

-----------------------------------------------------------------------------
(* Python dicts: insertion-ordered sequences of <<key, value>> pairs.      *)

Keys(d) == [i \in 1..Len(d) |-> d[i][1]]
Values(d) == [i \in 1..Len(d) |-> d[i][2]]
KeySet(d) == {d[i][1] : i \in 1..Len(d)}
Has(d, k) == k \in KeySet(d)
Get(d, k) == d[CHOOSE i \in 1..Len(d) : d[i][1] = k][2]

\* d[k] = v: a known key keeps its place, a new key goes last.
DictSet(d, k, v) ==
    IF Has(d, k)
    THEN [i \in 1..Len(d) |-> IF d[i][1] = k THEN <<k, v>> ELSE d[i]]
    ELSE Append(d, <<k, v>>)

\* dict(pairs): the pairs written one after the other.
RECURSIVE DictOf(_)
DictOf(pairs) ==
    IF pairs = <<>> THEN <<>>
    ELSE LET n == Len(pairs)
         IN  DictSet(DictOf(SubSeq(pairs, 1, n - 1)), pairs[n][1], pairs[n][2])

-----------------------------------------------------------------------------
(* The heap: Python objects are shared by reference.  A cell holds a dict; *)
(* an EmbeddingSet object is its label and the cell of its mapping.        *)

RefSeq == <<"d1", "d2", "d3">>
Refs == {RefSeq[i] : i \in 1..Len(RefSeq)}

Null == [name |-> "", embeddings |-> "null"]
IsNull(obj) == obj.embeddings = "null"

\* The first cell no live object refers to.
FreshRef(used) ==
    RefSeq[CHOOSE i \in 1..Len(RefSeq) :
              /\ RefSeq[i] \notin used
              /\ \A j \in 1..(i - 1) : RefSeq[j] \in used]

EmptyHeap == [r \in Refs |-> <<>>]

\* What a caller sees of a collection: its label and its mapping's items.
Content(h, obj) ==
    IF IsNull(obj) THEN [name |-> "", dict |-> <<>>]
    ELSE [name |-> obj.name, dict |-> h[obj.embeddings]]

\* The outcome of a call: its status, the heap it leaves, what it returns.
Returned(h, v) == [status |-> "ok", heap |-> h, ret |-> v]
Raised(h, kind) == [status |-> kind, heap |-> h, ret |-> Null]

-----------------------------------------------------------------------------
(* EmbeddingSet.__init__ *)

\* set(v.vector.shape for k, v in self.embeddings.items())
uniq_shapes(d) == {Len(d[i][2].vector) : i \in 1..Len(d)}

\* if not name: name = "EmbSet"
default_name(name) == IF name = "" THEN "EmbSet" ELSE name

\* init_dict without its check of the shapes.
init_dict_unchecked(h, ref, name) ==
    Returned(h, [name |-> default_name(name), embeddings |-> ref])

\* EmbeddingSet(mapping, name=name): the object keeps the mapping it was
\* given (no copy), then checks the shapes.
init_dict(h, ref, name) ==
    IF Cardinality(uniq_shapes(h[ref])) > 1
    THEN Raised(h, "DimensionMismatch")
    ELSE Returned(h, [name |-> default_name(name), embeddings |-> ref])

\* init_list without its check of the names: a later embedding replaces
\* an earlier one of the same name.
init_list_unchecked(h, ref, embs, name) ==
    init_dict([h EXCEPT ![ref] =
                  DictOf([i \in 1..Len(embs) |-> <<embs[i].name, embs[i]>>])],
              ref, name)

\* The names that occur more than once in a list of embeddings.
double_names(embs) ==
    {embs[i].name : i \in {i \in 1..Len(embs) :
                             \E j \in 1..Len(embs) : j # i /\ embs[j].name = embs[i].name}}

\* {t.name: t for t in embeddings}
dict_by_name(embs) == DictOf([i \in 1..Len(embs) |-> <<embs[i].name, embs[i]>>])

\* EmbeddingSet(*embeddings, name=name): refuses repeated names, builds the
\* mapping in a new cell, then checks the shapes.
init_list(h, ref, embs, name) ==
    IF double_names(embs) # {}
    THEN Raised(h, "DuplicateNameError")
    ELSE init_dict([h EXCEPT ![ref] = dict_by_name(embs)], ref, name)

\* from_names_X without the comparison of the lengths: zip stops at the
\* shorter of the two.
from_names_X_unchecked(h, ref, names, X) ==
    init_dict([h EXCEPT ![ref] =
                  DictOf([i \in 1..(IF Len(names) < Len(X) THEN Len(names) ELSE Len(X)) |->
                             <<names[i], Embedding(names[i], X[i])>>])],
              ref, "")

\* from_names_X that refuses repeated names as the list construction does.
from_names_X_no_repeats(h, ref, names, X) ==
    IF Len(X) # Len(names)
    THEN Raised(h, "LengthMismatchError")
    ELSE IF \E i, j \in 1..Len(names) : i # j /\ names[i] = names[j]
    THEN Raised(h, "DuplicateNameError")
    ELSE init_dict([h EXCEPT ![ref] =
                       DictOf([i \in 1..Len(names) |->
                                  <<names[i], Embedding(names[i], X[i])>>])],
                   ref, "")

\* EmbeddingSet.from_names_X(names, X)
from_names_X(h, ref, names, X) ==
    IF Len(X) # Len(names)
    THEN Raised(h, "LengthMismatchError")
    ELSE init_dict([h EXCEPT ![ref] =
                       DictOf([i \in 1..Len(names) |->
                                  <<names[i], Embedding(names[i], X[i])>>])],
                   ref, "")

\* len(self)
len(d) == Len(d)

-----------------------------------------------------------------------------
(* Elementwise operations: {k: emb <op> other for k, emb in items()}.      *)

Min(S) == CHOOSE x \in S : \A y \in S : x <= y

\* emb <op> other for the operator written sym.
emb_op(sym, a, b) ==
    CASE sym = " + " -> emb_add(a, b)
      [] sym = " - " -> emb_sub(a, b)
      [] sym = " | " -> emb_or(a, b)
      [] sym = " >> " -> emb_rshift(a, b)

\* The comprehension's items; it stops at the first member whose operation
\* raises.
lifted(d, rs) ==
    LET bad == {i \in 1..Len(d) : rs[i].status # "ok"}
    IN  IF bad # {} THEN Err(rs[Min(bad)].status)
        ELSE Ok([i \in 1..Len(d) |-> <<d[i][1], rs[i].value>>])

\* The comprehension with the operands the other way round.
lift_swapped(d, sym, e) == lifted(d, [i \in 1..Len(d) |-> emb_op(sym, e, d[i][2])])

\* {k: emb <op> other for k, emb in self.embeddings.items()}
lift(d, sym, e) == lifted(d, [i \in 1..Len(d) |-> emb_op(sym, d[i][2], e)])

\* EmbeddingSet(new_embeddings, name=name), new_embeddings the outcome r of
\* the comprehension, its mapping in a new cell.
new_set(h, ref, r, name) ==
    IF r.status # "ok" THEN Raised(h, r.status)
    ELSE init_dict([h EXCEPT ![ref] = r.value], ref, name)

\* The new collection of an elementwise operation.
elementwise(h, s, ref, sym, e) ==
    new_set(h, ref, lift(h[s.embeddings], sym, e),
            "(" \o s.name \o sym \o e.name \o ")")

\* self + other
set_add(h, s, ref, e) == elementwise(h, s, ref, " + ", e)
\* self - other
set_sub(h, s, ref, e) == elementwise(h, s, ref, " - ", e)
\* self | other, other an Embedding
set_or(h, s, ref, e) == elementwise(h, s, ref, " | ", e)
\* self >> other
set_rshift(h, s, ref, e) == elementwise(h, s, ref, " >> ", e)

-----------------------------------------------------------------------------
(* self | other, other an EmbeddingSet: Gram-Schmidt as the code writes it. *)

\* reduce(lambda a, b: b | a, embs): a left fold starting from embs[0].
RECURSIVE reduce_or_from(_, _)
reduce_or_from(acc, rest) ==
    IF rest = <<>> THEN Ok(acc)
    ELSE LET r == emb_or(rest[1], acc)
         IN  IF r.status # "ok" THEN r ELSE reduce_or_from(r.value, Tail(rest))

reduce_or(embs) == reduce_or_from(embs[1], Tail(embs))

\* for i in range(len(orth_away)):
\*     orth_away[i] = reduce(lambda a, b: b | a, orth_away[: i + 1])
RECURSIVE orth_away_from(_, _)
orth_away_from(embs, i) ==
    IF i > Len(embs) THEN Ok(embs)
    ELSE LET r == reduce_or(SubSeq(embs, 1, i))
         IN  IF r.status # "ok" THEN r
             ELSE orth_away_from([embs EXCEPT ![i] = r.value], i + 1)

\* orth_away after the loop, from [w for w in other].
orth_away(embs) == orth_away_from(embs, 1)

\* for e in orth_away: new_set = new_set | e
RECURSIVE project_away(_, _)
project_away(r, embs) ==
    IF r.status # "ok" \/ embs = <<>> THEN r
    ELSE project_away(set_or(r.heap, r.ret, r.ret.embeddings, embs[1]), Tail(embs))

\* new_set starts as EmbeddingSet(self.embeddings.copy()): a new cell, the
\* default label.
set_or_set(h, s, o, ref) ==
    LET b == orth_away(Values(h[o.embeddings]))
    IN  IF b.status # "ok" THEN Raised(h, b.status)
        ELSE project_away(init_dict([h EXCEPT ![ref] = h[s.embeddings]], ref, ""),
                          b.value)

-----------------------------------------------------------------------------
(* filter, merge, add_property, average, to_X *)

\* The predicates a caller filters with.
Preds == {"all", "none", "name_a"}
apply_pred(func, e) ==
    CASE func = "all" -> TRUE
      [] func = "none" -> FALSE
      [] OTHER -> e.name = "a"

\* The filter that keeps the members func rejects.
set_filter_rejected(h, s, ref, func) ==
    init_dict([h EXCEPT ![ref] =
                  SelectSeq(h[s.embeddings], LAMBDA kv : ~apply_pred(func, kv[2]))],
              ref, "")

\* EmbeddingSet({k: v for k, v in self.embeddings.items() if func(v)})
set_filter(h, s, ref, func) ==
    init_dict([h EXCEPT ![ref] =
                  SelectSeq(h[s.embeddings], LAMBDA kv : apply_pred(func, kv[2]))],
              ref, "")

\* The union in which self's entry wins a collision.
merged_self_wins(a, b) == DictOf(b \o a)

\* {**self.embeddings, **other.embeddings}
merged(a, b) == DictOf(a \o b)

\* merge as self.embeddings.update(other.embeddings): no new mapping.
set_merge_in_place(h, s, o, ref) ==
    init_dict([h EXCEPT ![s.embeddings] = DictOf(h[s.embeddings] \o h[o.embeddings])],
              s.embeddings, "")

\* EmbeddingSet({**self.embeddings, **other.embeddings})
set_merge(h, s, o, ref) ==
    init_dict([h EXCEPT ![ref] = merged(h[s.embeddings], h[o.embeddings])], ref, "")

\* The functions a caller computes a property with.
PropFuncs == {"const", "name"}
apply_func(func, e) == IF func = "const" THEN "x" ELSE e.name

\* EmbeddingSet({k: e.add_property(name, func) for k, e in items()})
set_add_property(h, s, ref, name, func) ==
    LET d == h[s.embeddings]
    IN  init_dict([h EXCEPT ![ref] =
                      [i \in 1..Len(d) |->
                          <<d[i][1],
                            emb_add_property(d[i][2], name, apply_func(func, d[i][2]))>>]],
                  ref, "")

\* The matrix with the rows in the reverse of the iteration order.
to_X_reversed(d) == [i \in 1..Len(d) |-> d[Len(d) + 1 - i][2].vector]

\* np.array([i.vector for i in self.embeddings.values()])
to_X(d) == [i \in 1..Len(d) |-> d[i][2].vector]

\* list(self.embeddings.keys()), self.to_X()
to_names_X(d) == <<Keys(d), to_X(d)>>

\* np.mean(x, axis=0): the mean of each column; of no rows at all numpy
\* returns a lone nan (with a warning), here the vector <<NaN>>.
mean(X) ==
    IF X = <<>> THEN <<NaN>>
    ELSE [j \in 1..Len(X[1]) |->
            RDiv(RSum([i \in 1..Len(X) |-> X[i][j]]), Rat(Len(X), 1))]

\* self.average(): Embedding(f"{self.name}.average()", np.mean(x, axis=0))
average(h, s) ==
    Returned(h, Embedding(s.name \o ".average()", mean(to_X(h[s.embeddings]))))

-----------------------------------------------------------------------------
(* score_similar and embset_similar *)

\* The metrics of sklearn's pairwise_distances that are exact on rationals.
Metrics == {"cityblock", "sqeuclidean"}

distance(metric, v, w) ==
    LET diff == VSub(v, w)
    IN  IF metric = "cityblock"
        THEN RSum([i \in 1..Len(diff) |-> RAbs(diff[i])])
        ELSE Dot(diff, diff)

\* A query: a name to look up, or an Embedding.
ByName(k) == [str |-> TRUE, key |-> k, emb |-> Embedding("", <<>>)]
ByEmb(e) == [str |-> FALSE, key |-> "", emb |-> e]

\* x put into the sorted sequence front, before the elements not smaller.
insert_before_equal(front, x) ==
    LET pos == Cardinality({i \in 1..Len(front) : RLess(front[i][2], x[2])})
    IN  SubSeq(front, 1, pos) \o <<x>> \o SubSeq(front, pos + 1, Len(front))

\* A sort that puts an element before the equal ones it follows.
RECURSIVE sorted_unstable(_)
sorted_unstable(pairs) ==
    IF pairs = <<>> THEN <<>>
    ELSE insert_before_equal(sorted_unstable(SubSeq(pairs, 1, Len(pairs) - 1)),
                             pairs[Len(pairs)])

\* x put into the sorted sequence front, behind the elements not greater.
insert_sorted(front, x) ==
    LET pos == Cardinality({i \in 1..Len(front) : ~RLess(x[2], front[i][2])})
    IN  SubSeq(front, 1, pos) \o <<x>> \o SubSeq(front, pos + 1, Len(front))

\* sorted(pairs, key=lambda z: z[1]): Python's sort is stable.
RECURSIVE sorted(_)
sorted(pairs) ==
    IF pairs = <<>> THEN <<>>
    ELSE insert_sorted(sorted(SubSeq(pairs, 1, Len(pairs) - 1)), pairs[Len(pairs)])

\* seq[:n], n of either sign.
slice_to(seq, n) ==
    IF n >= 0 THEN SubSeq(seq, 1, IF n < Len(seq) THEN n ELSE Len(seq))
    ELSE SubSeq(seq, 1, IF Len(seq) + n > 0 THEN Len(seq) + n ELSE 0)

\* pairwise_distances(vector_matrix, vec.reshape(1, -1)) refuses a matrix
\* of no rows and rows that are not as long as vec.
pairwise_ok(d, vec) ==
    /\ d # <<>>
    /\ \A i \in 1..Len(d) : Len(d[i][2].vector) = Len(vec)

\* The zip that leaves out the members at the query's own place.
zipped_without_query(d, metric, vec) ==
    LET others == SelectSeq(d, LAMBDA kv : kv[2].vector # vec)
    IN  [i \in 1..Len(others) |->
            <<others[i][1], distance(metric, others[i][2].vector, vec)>>]

\* zip(queries, distances): every key with the distance of its vector to vec.
zipped(d, metric, vec) ==
    [i \in 1..Len(d) |-> <<d[i][1], distance(metric, d[i][2].vector, vec)>>]

\* [(self[q], float(d)) for q, d in top]
scored(d, top) == [i \in 1..Len(top) |-> <<Get(d, top[i][1]), top[i][2]>>]

\* score_similar once the query is a vector.
score_vector(h, d, vec, n, metric) ==
    IF ~pairwise_ok(d, vec) THEN Raised(h, "ValueError")
    ELSE Returned(h, scored(d, slice_to(sorted(zipped(d, metric, vec)), n)))

\* score_similar that looks every query up, an Embedding under its name.
score_similar_always_lookup(h, s, q, n, metric) ==
    LET d == h[s.embeddings]
        key == IF q.str THEN q.key ELSE q.emb.name
    IN  IF n > len(d) THEN Raised(h, "InvalidRequestError")
        ELSE IF ~Has(d, key) THEN Raised(h, "UnknownNameError")
        ELSE score_vector(h, d, Get(d, key).vector, n, metric)

\* self.score_similar(emb, n, metric)
score_similar(h, s, q, n, metric) ==
    LET d == h[s.embeddings]
    IN  IF n > len(d) THEN Raised(h, "InvalidRequestError")
        ELSE IF q.str /\ ~Has(d, q.key) THEN Raised(h, "UnknownNameError")
        ELSE score_vector(h, d, IF q.str THEN Get(d, q.key).vector ELSE q.emb.vector,
                          n, metric)

\* embs = [w[0] for w in r]; EmbeddingSet({w.name: w for w in embs}), r what
\* score_similar returned or raised.
embset_of(h, ref, r) ==
    IF r.status # "ok" THEN r
    ELSE init_dict([h EXCEPT ![ref] =
                       dict_by_name([i \in 1..Len(r.ret) |-> r.ret[i][1]])],
                   ref, "")

\* self.embset_similar(emb, n, metric)
embset_similar(h, s, ref, q, n, metric) ==
    embset_of(h, ref, score_similar(h, s, q, n, metric))

-----------------------------------------------------------------------------
(* What callers pass in. *)

SeqsUpTo(S, n) == UNION {[1..k -> S] : k \in 0..n}

\* Mappings from keys K to embeddings E (a dict has no repeated key).
DictsOf(K, E, n) ==
    {d \in SeqsUpTo(K \X E, n) : \A i, j \in 1..Len(d) : d[i][1] = d[j][1] => i = j}

\* Arrays of equally long rows.
MatricesOf(V, n) ==
    {X \in SeqsUpTo(V, n) : \A i, j \in 1..Len(X) : Len(X[i]) = Len(X[j])}

\* The mappings of the collections EmbeddingSet(*embs) accepts.
ListBuilt(E, n) ==
    {dict_by_name(embs) : embs \in
        {l \in SeqsUpTo(E, n) : double_names(l) = {} /\ Cardinality(uniq_shapes(dict_by_name(l))) <= 1}}

QueriesOf(K, V) == {ByName(k) : k \in K} \cup {ByEmb(Embedding("q", v)) : v \in V}

\* The result counts asked for: from a negative one to one too many.
Counts(n) == (-1)..(n + 1)

\* The inputs of the specification Spec.
Names == {"a", "b", "c"}
Vectors == {ToVec(<<1, 0>>), ToVec(<<0, 1>>), ToVec(<<1, 1>>), ToVec(<<2>>)}
Embs == {Embedding("a", ToVec(<<1, 0>>)), Embedding("b", ToVec(<<0, 1>>)),
         Embedding("b", ToVec(<<1, 0>>)), Embedding("c", ToVec(<<1, 1>>)),
         Embedding("c", ToVec(<<2>>))}
ListInputs == SeqsUpTo(Embs, MaxLen)
DictInputs == DictsOf(Names, Embs, MaxLen)
NameInputs == SeqsUpTo(Names, MaxLen)
MatrixInputs == MatricesOf(Vectors, MaxLen)
OtherDicts == ListBuilt(Embs, MaxLen) \cup {<<>>}
\* Among the queries: an Embedding named as a member with another vector.
Queries == QueriesOf(Names, Vectors) \cup {ByEmb(Embedding("a", ToVec(<<0, 1>>)))}

\* The inputs of the specification SpecChain, whose caller goes on with
\* the collections it is returned.
ChainNames == {"a", "b"}
ChainVectors == {ToVec(<<1, 0>>), ToVec(<<0, 1>>), ToVec(<<2>>)}
ChainEmbs == {Embedding("a", ToVec(<<1, 0>>)), Embedding("b", ToVec(<<0, 1>>)),
              Embedding("b", ToVec(<<1, 0>>)), Embedding("a", ToVec(<<2>>))}
ChainListInputs == SeqsUpTo(ChainEmbs, MaxLen)
ChainDictInputs == DictsOf(ChainNames, ChainEmbs, MaxLen)
ChainNameInputs == SeqsUpTo(ChainNames, MaxLen)
ChainMatrixInputs == MatricesOf(ChainVectors, MaxLen)
ChainOtherDicts == ListBuilt(ChainEmbs, MaxLen) \cup {<<>>}
ChainQueries == QueriesOf(ChainNames, ChainVectors)

-----------------------------------------------------------------------------
(* The state machine: a caller constructs a collection, calls operations   *)
(* on it, and may go on with a collection an operation returned.           *)

NoContent == [name |-> "", dict |-> <<>>]

\* The operations that return a collection.
SetOps == {"add", "sub", "or", "rshift", "or_set", "filter", "merge",
           "add_property", "embset_similar"}

\* After these the caller holds its collection and nothing else.
IdleOps == {"init_dict", "init_list", "from_names_X", "adopt", "drop"}

\* The cells of h that the objects in live refer to; the others are garbage.
Collect(h, live) == [r \in Refs |-> IF r \in live THEN h[r] ELSE <<>>]

LiveRefs(objs) == {o.embeddings : o \in {o \in objs : ~IsNull(o)}}

Init ==
    /\ heap = EmptyHeap
    /\ self = Null
    /\ other = Null
    /\ result = Null
    /\ depth = 0
    /\ last = [op |-> "none", status |-> "ok", arg |-> <<>>, val |-> <<>>,
               pre |-> NoContent, preOther |-> NoContent]

\* The caller's first call, a constructor, returning r for the input arg.
Constructed(op, r, arg) ==
    /\ last.op = "none"
    /\ self' = r.ret
    /\ heap' = Collect(r.heap, LiveRefs({r.ret}))
    /\ other' = Null
    /\ result' = Null
    /\ last' = [op |-> op, status |-> r.status, arg |-> arg, val |-> <<>>,
                pre |-> Content(r.heap, r.ret), preOther |-> NoContent]
    /\ UNCHANGED depth

\* EmbeddingSet(d, name=name): the caller's dict d lives in a cell of its own.
ConstructDict(d, name) ==
    Constructed("init_dict", init_dict([EmptyHeap EXCEPT !["d1"] = d], "d1", name), d)

\* EmbeddingSet(*embs, name=name); with no embedding at all, embeddings[0]
\* fails.
ConstructList(embs, name) ==
    Constructed("init_list",
                IF embs = <<>> THEN Raised(EmptyHeap, "IndexError")
                ELSE init_list(EmptyHeap, "d1", embs, name),
                embs)

\* EmbeddingSet.from_names_X(names, X)
ConstructNamesX(names, X) ==
    Constructed("from_names_X", from_names_X(EmptyHeap, "d1", names, X),
                [names |-> names, X |-> X])

\* The heap a call starts from: what an earlier call returned is dropped.
Before == Collect(heap, {self.embeddings})

\* The cell of the other operand, and the other operand with mapping od.
OtherRef == FreshRef({self.embeddings})
OtherObj == [name |-> "EmbSet", embeddings |-> OtherRef]
WithOther(od) == [Before EXCEPT ![OtherRef] = od]

\* The cell a call without another operand allocates, and the one a call
\* with another operand allocates.
NewRef == FreshRef({self.embeddings})
NewRef2 == FreshRef({self.embeddings, OtherRef})

\* len(self), for a caller that holds a collection.
SelfLen == IF IsNull(self) THEN 0 ELSE len(heap[self.embeddings])

\* A call on self, with other operand o (Null for none), that ended as r.
Called(op, h0, o, r, arg) ==
    LET isSet == op \in SetOps /\ r.status = "ok"
        res == IF isSet THEN r.ret ELSE Null
    IN  /\ ~IsNull(self)
        /\ last.op \in IdleOps
        /\ heap' = Collect(r.heap, LiveRefs({self, o, res}))
        /\ other' = o
        /\ result' = res
        /\ last' = [op |-> op, status |-> r.status, arg |-> arg,
                    val |-> IF isSet \/ r.status # "ok" THEN <<>> ELSE r.ret,
                    pre |-> Content(h0, self), preOther |-> Content(h0, o)]
        /\ UNCHANGED <<self, depth>>

Add(e) ==
    Called("add", Before, Null, set_add(Before, self, NewRef, e), e)
Sub(e) ==
    Called("sub", Before, Null, set_sub(Before, self, NewRef, e), e)
Or(e) ==
    Called("or", Before, Null, set_or(Before, self, NewRef, e), e)
Rshift(e) ==
    Called("rshift", Before, Null, set_rshift(Before, self, NewRef, e), e)

OrSet(od) ==
    Called("or_set", WithOther(od), OtherObj,
           set_or_set(WithOther(od), self, OtherObj, NewRef2), <<>>)

Merge(od) ==
    Called("merge", WithOther(od), OtherObj,
           set_merge(WithOther(od), self, OtherObj, NewRef2), <<>>)

Filter(func) ==
    Called("filter", Before, Null, set_filter(Before, self, NewRef, func), func)

AddProperty(name, func) ==
    Called("add_property", Before, Null,
           set_add_property(Before, self, NewRef, name, func),
           [name |-> name, func |-> func])

Average ==
    Called("average", Before, Null, average(Before, self), <<>>)

ToNamesX ==
    Called("to_names_X", Before, Null,
           Returned(Before, to_names_X(Before[self.embeddings])), <<>>)

ScoreSimilar(q, n, metric) ==
    Called("score_similar", Before, Null, score_similar(Before, self, q, n, metric),
           [q |-> q, n |-> n, metric |-> metric])

EmbsetSimilar(q, n, metric) ==
    Called("embset_similar", Before, Null,
           embset_similar(Before, self, NewRef, q, n, metric),
           [q |-> q, n |-> n, metric |-> metric])

\* The caller lets go of what the last call returned and of the other
\* operand, and keeps its collection.
Drop ==
    /\ ~IsNull(self)
    /\ last.op \notin IdleOps
    /\ heap' = Collect(heap, {self.embeddings})
    /\ other' = Null
    /\ result' = Null
    /\ last' = [last EXCEPT !.op = "drop", !.status = "ok", !.arg = <<>>,
                            !.val = <<>>, !.preOther = NoContent]
    /\ UNCHANGED <<self, depth>>

\* The caller goes on with the collection it was returned.
Adopt ==
    /\ ~IsNull(result)
    /\ depth < MaxOps
    /\ self' = result
    /\ other' = Null
    /\ result' = Null
    /\ heap' = Collect(heap, {result.embeddings})
    /\ depth' = depth + 1
    /\ last' = [op |-> "adopt", status |-> "ok", arg |-> <<>>, val |-> <<>>,
                pre |-> Content(heap, result), preOther |-> NoContent]

\* One call, a constructor or an operation on the collection constructed,
\* of a caller that draws its inputs from the given sets.
Step(dicts, lists, names, mats, embs, others, queries) ==
    \/ \E d \in dicts : ConstructDict(d, "")
    \/ \E l \in lists : ConstructList(l, "")
    \/ \E ns \in names, X \in mats : ConstructNamesX(ns, X)
    \/ \E e \in embs : Add(e)
    \/ \E e \in embs : Sub(e)
    \/ \E e \in embs : Or(e)
    \/ \E e \in embs : Rshift(e)
    \/ \E od \in others : OrSet(od)
    \/ \E od \in others : Merge(od)
    \/ \E func \in Preds : Filter(func)
    \/ \E func \in PropFuncs : AddProperty("g", func)
    \/ Average
    \/ ToNamesX
    \/ \E q \in queries, n \in Counts(SelfLen), metric \in Metrics :
          ScoreSimilar(q, n, metric)
    \/ \E q \in queries, n \in Counts(SelfLen), metric \in Metrics :
          EmbsetSimilar(q, n, metric)

Next ==
    Step(DictInputs, ListInputs, NameInputs, MatrixInputs, Embs, OtherDicts, Queries)

Spec == Init /\ [][Next]_vars

NextChain ==
    \/ Step(ChainDictInputs, ChainListInputs, ChainNameInputs, ChainMatrixInputs,
            ChainEmbs, ChainOtherDicts, ChainQueries)
    \/ Drop
    \/ Adopt

SpecChain == Init /\ [][NextChain]_vars

-----------------------------------------------------------------------------
(* Orthogonalisation against a span: three-dimensional inputs.             *)

\* The most members of a collection projected away from.
MaxSpan == 3

GSNames == {"a", "b", "c"}
GSEmbs == {Embedding("a", ToVec(<<1, 0, 0>>)), Embedding("b", ToVec(<<1, 1, 0>>)),
           Embedding("c", ToVec(<<1, 1, 1>>)), Embedding("c", ToVec(<<0, 0, 1>>)),
           Embedding("b", ToVec(<<1, 0, 0>>))}
GSDictInputs == DictsOf({"a", "b"}, GSEmbs, MaxLen)
GSOtherDicts == ListBuilt(GSEmbs, MaxSpan) \cup {<<>>}
GSLabels == {"", "emb"}

NextGS ==
    \/ \E d \in GSDictInputs, name \in GSLabels : ConstructDict(d, name)
    \/ \E e \in GSEmbs : Or(e)
    \/ \E od \in GSOtherDicts : OrSet(od)
    \/ Drop

SpecGS == Init /\ [][NextGS]_vars

-----------------------------------------------------------------------------
(* What the claims are stated with. *)

\* The collections the caller holds.
Held == {o \in {self, other, result} : ~IsNull(o)}

\* The vector lengths found in a mapping.
Lengths(d) == {Len(d[i][2].vector) : i \in 1..Len(d)}

ConstructOps == {"init_dict", "init_list", "from_names_X"}

\* The mapping of the collection the last call returned.
ResultDict == heap[result.embeddings]

\* Whether the query q resolves to a vector in the mapping d, and to which.
Resolves(d, q) == ~q.str \/ Has(d, q.key)
QueryVec(d, q) == IF q.str THEN Get(d, q.key).vector ELSE q.emb.vector

\* The distances from the members of d, in iteration order, to the vector.
Dists(d, metric, vec) == [i \in 1..Len(d) |-> distance(metric, d[i][2].vector, vec)]

\* How often the value x occurs in the sequence s.
Count(s, x) == Cardinality({i \in 1..Len(s) : s[i] = x})

-----------------------------------------------------------------------------
(* The claims. *)

\* C1 (as amended): in every collection a caller holds after construction
\* and any sequence of operations all vectors have one length; a mapping,
\* or a list of distinctly named embeddings, whose vectors differ in length
\* is refused with the dimension error and no collection is made; merge is
\* refused with the dimension error exactly when other's entries together
\* with self's entries under keys other does not have differ in length.
C1_DimensionInvariant ==
    /\ \A o \in Held : Cardinality(Lengths(heap[o.embeddings])) <= 1
    /\ last.op = "init_dict" =>
          /\ (last.status = "DimensionMismatch") <=> (Cardinality(Lengths(last.arg)) > 1)
          /\ last.status # "ok" => IsNull(self)
    /\ (last.op = "init_list" /\ last.arg # <<>> /\ double_names(last.arg) = {}) =>
          /\ (last.status = "DimensionMismatch")
                <=> (Cardinality({Len(last.arg[i].vector) : i \in 1..Len(last.arg)}) > 1)
          /\ last.status # "ok" => IsNull(self)
    /\ last.op = "merge" =>
          LET A == last.pre.dict
              B == last.preOther.dict
              kept == {i \in 1..Len(A) : ~Has(B, A[i][1])}
              lens == Lengths(B) \cup {Len(A[i][2].vector) : i \in kept}
          IN  /\ (last.status = "DimensionMismatch") <=> (Cardinality(lens) > 1)
              /\ last.status # "ok" => IsNull(result)

\* C1 witness: a merge on a collection an earlier operation returned is
\* refused for its dimensions.
C1_Witness ==
    /\ depth = 1
    /\ last.op = "merge"
    /\ last.status = "DimensionMismatch"
    /\ IsNull(result)

\* C1 as claimed: the invariant, and merge(A, B) of two collections of
\* different dimensions fails with the dimension error.
C1_MergeOfDifferentDimensionsFails ==
    /\ \A o \in Held : Cardinality(Lengths(heap[o.embeddings])) <= 1
    /\ last.op = "merge" =>
          LET A == last.pre.dict
              B == last.preOther.dict
          IN  (A # <<>> /\ B # <<>> /\ Lengths(A) # Lengths(B)) =>
                 (last.status = "DimensionMismatch" /\ IsNull(result))

\* C2: a list that repeats a name is refused with the duplicate-name error
\* (and only such a list), a mapping never is, and no collection a caller
\* holds has a key twice.
C2_NamesUnique ==
    /\ (last.op = "init_list" /\ last.arg # <<>>) =>
          /\ (\E i, j \in 1..Len(last.arg) : i # j /\ last.arg[i].name = last.arg[j].name)
                <=> (last.status = "DuplicateNameError")
          /\ last.status = "DuplicateNameError" => IsNull(self)
    /\ last.op = "init_dict" => last.status # "DuplicateNameError"
    /\ \A o \in Held :
          LET d == heap[o.embeddings]
          IN  \A i, j \in 1..Len(d) : d[i][1] = d[j][1] => i = j

\* C2 witness: a list with a repeated name was refused.
C2_Witness ==
    /\ last.op = "init_list"
    /\ Len(last.arg) = 2
    /\ last.arg[1].name = last.arg[2].name
    /\ last.status = "DuplicateNameError"
    /\ IsNull(self)

\* C3: for every collection, every query that resolves to a vector (of the
\* collection's dimension, if it has one) and every 0 <= n <= len,
\* score_similar returns exactly n pairs, each a member with its distance,
\* in non-decreasing order of distance, leaving out no member strictly
\* closer than one returned; n > len is refused as an invalid request.
C3_SimilarityBound ==
    last.op = "score_similar" =>
       LET d == last.pre.dict
           q == last.arg.q
           n == last.arg.n
           m == last.arg.metric
           qv == QueryVec(d, q)
           R == last.val
       IN  /\ n > Len(d) => last.status = "InvalidRequestError"
           /\ (0 <= n /\ n <= Len(d) /\ Resolves(d, q) /\ Lengths(d) \subseteq {Len(qv)}) =>
                 /\ last.status = "ok"
                 /\ Len(R) = n
                 /\ \A j \in 1..n :
                       /\ Count([i \in 1..n |-> R[i][1]], R[j][1])
                             <= Count(Values(d), R[j][1])
                       /\ R[j][2] = distance(m, R[j][1].vector, qv)
                       /\ j < n => ~RLess(R[j + 1][2], R[j][2])
                       /\ Cardinality({i \in 1..Len(d) :
                                         RLess(Dists(d, m, qv)[i], R[j][2])}) <= j - 1

\* C4: a negative result count is refused as an invalid request.
C4_NegativeCountRefused ==
    (last.op \in {"score_similar", "embset_similar"} /\ last.arg.n < 0) =>
       last.status = "InvalidRequestError"

\* C5: after self | other every member of the result is orthogonal to every
\* member of other.
C5_OrthogonalToWholeSpan ==
    (last.op = "or_set" /\ last.status = "ok") =>
       \A i \in 1..Len(ResultDict), j \in 1..Len(last.preOther.dict) :
          Dot(ResultDict[i][2].vector, last.preOther.dict[j][2].vector) = Zero

\* C6: for A and B of one dimension merge(A, B) succeeds, its keys are the
\* keys of A and of B, under a key of B it holds B's entry, under a key of
\* A alone A's entry, and it has len(A) + len(B) - |common keys| members.
C6_MergeSemantics ==
    last.op = "merge" =>
       LET A == last.pre.dict
           B == last.preOther.dict
       IN  Cardinality(Lengths(A) \cup Lengths(B)) <= 1 =>
              /\ last.status = "ok"
              /\ KeySet(ResultDict) = KeySet(A) \cup KeySet(B)
              /\ \A k \in KeySet(B) : Get(ResultDict, k) = Get(B, k)
              /\ \A k \in KeySet(A) \ KeySet(B) : Get(ResultDict, k) = Get(A, k)
              /\ Len(ResultDict)
                    = Len(A) + Len(B) - Cardinality(KeySet(A) \cap KeySet(B))

\* C6 witness: a merge in which a key of both holds different entries and
\* another key is A's alone.
C6_Witness ==
    /\ last.op = "merge"
    /\ last.status = "ok"
    /\ \E k \in KeySet(last.pre.dict) \cap KeySet(last.preOther.dict) :
          Get(last.pre.dict, k) # Get(last.preOther.dict, k)
    /\ KeySet(last.pre.dict) \ KeySet(last.preOther.dict) # {}
    /\ Len(ResultDict) = 2

\* C7: a call leaves its operands as they were (label, keys in their order,
\* the entry under every key), and the collection it returns has a mapping
\* of its own, shared with no operand.
C7_OperandsUnchanged ==
    /\ Content(heap, self) = last.pre
    /\ Content(heap, other) = last.preOther
    /\ ~IsNull(result) => result.embeddings \notin LiveRefs({self, other})

\* C7 witness: after an earlier operation, a merge returned a collection
\* that differs from both operands.
C7_Witness ==
    /\ depth = 1
    /\ last.op = "merge"
    /\ last.status = "ok"
    /\ last.pre.dict # <<>>
    /\ last.preOther.dict # <<>>
    /\ ResultDict # last.pre.dict
    /\ ResultDict # last.preOther.dict

\* C8: the mean of a collection without members is refused with the
\* empty-collection error.
C8_MeanOfNothingRefused ==
    (last.op = "average" /\ last.pre.dict = <<>>) =>
       last.status = "EmptyCollectionError"

\* C9: embset_similar returns a collection of exactly n members, the
\* entities of score_similar for the same query in the same order.
C9_EmbsetKeepsEveryMatch ==
    (last.op = "embset_similar" /\ last.status = "ok" /\ last.arg.n >= 0) =>
       LET r == score_similar(heap, self, last.arg.q, last.arg.n, last.arg.metric)
       IN  /\ Len(ResultDict) = last.arg.n
           /\ Values(ResultDict) = [i \in 1..Len(r.ret) |-> r.ret[i][1]]

\* C10: score_similar returns the members in order of distance, members at
\* the same distance in the collection's iteration order, cut after n.
C10_TiesKeepIterationOrder ==
    (last.op = "score_similar" /\ last.status = "ok" /\ last.arg.n >= 0) =>
       LET d == last.pre.dict
           D == Dists(d, last.arg.metric, QueryVec(d, last.arg.q))
           rank(i) == 1 + Cardinality({j \in 1..Len(d) :
                                          RLess(D[j], D[i]) \/ (D[j] = D[i] /\ j < i)})
           at(r) == CHOOSE i \in 1..Len(d) : rank(i) = r
       IN  last.val = [r \in 1..last.arg.n |-> <<d[at(r)][2], D[at(r)]>>]

\* C10 witness: two different members tie for the closest, one was asked
\* for and the earlier one came back.
C10_Witness ==
    /\ last.op = "score_similar"
    /\ last.status = "ok"
    /\ last.arg.n = 1
    /\ Len(last.pre.dict) = 2
    /\ last.pre.dict[1][2] # last.pre.dict[2][2]
    /\ LET D == Dists(last.pre.dict, last.arg.metric, QueryVec(last.pre.dict, last.arg.q))
       IN  D[1] = D[2]
    /\ last.val[1][1] = last.pre.dict[1][2]

\* The first member of d, in iteration order, whose vector is vec.
FirstAt(d, vec) == d[Min({i \in 1..Len(d) : d[i][2].vector = vec})][2]

C12_UnknownNameRefused ==
    last.op \in {"score_similar", "embset_similar"} =>
       LET d == last.pre.dict
           q == last.arg.q
       IN  /\ (q.str /\ ~Has(d, q.key) /\ last.arg.n <= Len(d)) =>
                 /\ last.status = "UnknownNameError"
                 /\ last.val = <<>>
                 /\ IsNull(result)
                 /\ Content(heap, self) = last.pre
           /\ ~q.str =>
                 /\ last.status # "UnknownNameError"
                 /\ (last.op = "score_similar" /\ last.status = "ok") =>
                       \A j \in 1..Len(last.val) :
                          last.val[j][2]
                             = distance(last.arg.metric, last.val[j][1].vector, q.emb.vector)

\* C12 witness: every member of a collection was asked for by a name that
\* is not a key, and the call was refused.
C12_Witness ==
    /\ last.op = "score_similar"
    /\ last.arg.q.str
    /\ last.pre.dict # <<>>
    /\ ~Has(last.pre.dict, last.arg.q.key)
    /\ last.arg.n = Len(last.pre.dict)
    /\ last.status = "UnknownNameError"

\* C13: from_names_X fails with the length-mismatch error whenever names
\* and X differ in length and makes no collection; for equally many
\* distinct names and vectors the i-th key of the collection is names[i]
\* and the entity under it is named names[i] and holds X[i].
C13_FromNamesX ==
    last.op = "from_names_X" =>
       LET names == last.arg.names
           X == last.arg.X
           d == last.pre.dict
       IN  /\ Len(names) # Len(X) =>
                 (last.status = "LengthMismatchError" /\ IsNull(self))
           /\ (Len(names) = Len(X)
                  /\ \A i, j \in 1..Len(names) : names[i] = names[j] => i = j) =>
                 /\ last.status = "ok"
                 /\ ~IsNull(self)
                 /\ heap[self.embeddings] = d
                 /\ Keys(d) = names
                 /\ \A i \in 1..Len(names) :
                       d[i][2].name = names[i] /\ d[i][2].vector = X[i]

\* C13 witness: a collection of two members made from two names and two
\* different vectors.
C13_Witness ==
    /\ last.op = "from_names_X"
    /\ last.status = "ok"
    /\ Len(last.arg.names) = 2
    /\ last.arg.names[1] # last.arg.names[2]
    /\ last.arg.X[1] # last.arg.X[2]
    /\ Len(heap[self.embeddings]) = 2

\* The place of the key k in the mapping d.
IndexOf(d, k) == CHOOSE i \in 1..Len(d) : d[i][1] = k

\* C14: filter returns a new collection whose keys are the keys of the
\* members func accepts, each with the entity it had, in the order they had;
\* when func rejects every member the result is the empty collection and no
\* error.
C14_FilterKeepsAccepted ==
    last.op = "filter" =>
       LET d == last.pre.dict
       IN  /\ last.status = "ok"
           /\ ~IsNull(result)
           /\ result.embeddings # self.embeddings
           /\ KeySet(ResultDict) = {k \in KeySet(d) : apply_pred(last.arg, Get(d, k))}
           /\ \A k \in KeySet(ResultDict) : Get(ResultDict, k) = Get(d, k)
           /\ \A i, j \in 1..Len(ResultDict) :
                 i < j => IndexOf(d, ResultDict[i][1]) < IndexOf(d, ResultDict[j][1])
           /\ (\A k \in KeySet(d) : ~apply_pred(last.arg, Get(d, k))) => ResultDict = <<>>

\* C14 witness: of two members the filter kept the second alone.
C14_Witness ==
    /\ last.op = "filter"
    /\ last.status = "ok"
    /\ Len(last.pre.dict) = 2
    /\ ResultDict = <<last.pre.dict[2]>>

\* The operator symbol of an elementwise method.
SymOf(op) ==
    CASE op = "add" -> " + "
      [] op = "sub" -> " - "
      [] op = "or" -> " | "
      [] op = "rshift" -> " >> "

\* C15: for an entity e of the collection's dimension (and not a zero
\* vector where the operation divides by e.e), C + e, C - e, C >> e and
\* C | e return a new collection with the keys of C in their order, under
\* each key the entity-level operation applied to (C[k], e), labelled
\* "(<label of C> <operator> <name of e>)".
C15_ElementwiseLift ==
    last.op \in {"add", "sub", "or", "rshift"} =>
       LET d == last.pre.dict
           e == last.arg
           sym == SymOf(last.op)
       IN  (\A i \in 1..Len(d) : emb_op(sym, d[i][2], e).status = "ok") =>
              /\ last.status = "ok"
              /\ ~IsNull(result)
              /\ result.embeddings # self.embeddings
              /\ Keys(ResultDict) = Keys(d)
              /\ \A i \in 1..Len(d) :
                    ResultDict[i][2] = emb_op(sym, d[i][2], e).value
              /\ result.name = "(" \o last.pre.name \o sym \o e.name \o ")"

\* C15 witness: a projection of two members onto an entity that changed
\* the vector of one of them.
C15_Witness ==
    /\ last.op = "rshift"
    /\ last.status = "ok"
    /\ Len(ResultDict) = 2
    /\ \E i \in 1..2 : ResultDict[i][2].vector # last.pre.dict[i][2].vector
    /\ result.name = "(EmbSet >> " \o last.arg.name \o ")"

\* C16: to_names_X returns the keys of the collection in iteration order
\* and a matrix of len(C) rows, row i the vector stored under names[i]; so
\* for every collection, those that operations returned included.
C16_MatrixRowsAligned ==
    last.op = "to_names_X" =>
       LET d == last.pre.dict
       IN  /\ last.status = "ok"
           /\ Len(last.val) = 2
           /\ last.val[1] = Keys(d)
           /\ Len(last.val[2]) = Len(d)
           /\ \A i \in 1..Len(d) : last.val[2][i] = Get(d, last.val[1][i]).vector

\* C16 witness: the export of a collection that an earlier operation
\* returned, of two members with different vectors.
C16_Witness ==
    /\ depth = 1
    /\ last.op = "to_names_X"
    /\ last.status = "ok"
    /\ Len(last.val[2]) = 2
    /\ last.val[2][1] # last.val[2][2]

\* The vector v made orthogonal to each of the vectors us in sequence, a
\* zero vector among them passed over.
RECURSIVE orth_to_each(_, _)
orth_to_each(v, us) ==
    IF us = <<>> THEN v
    ELSE orth_to_each(IF Dot(us[1], us[1]) = Zero THEN v
                      ELSE VSub(v, project(v, us[1])),
                      Tail(us))

\* The basis u_1, ..., u_k of the vectors vs: u_1 = v_1, u_i = v_i made
\* orthogonal to each of u_1, ..., u_(i-1).
RECURSIVE basis_of(_)
basis_of(vs) ==
    IF vs = <<>> THEN <<>>
    ELSE LET us == basis_of(SubSeq(vs, 1, Len(vs) - 1))
         IN  Append(us, orth_to_each(vs[Len(vs)], us))

\* The vectors of the members of a mapping, in iteration order.
VectorsOf(d) == [i \in 1..Len(d) |-> d[i][2].vector]

\* C17: in self | other, when a basis vector u_i of other has zero norm,
\* that step is passed over: no error is raised and the result is what
\* orthogonalising against the other basis vectors gives.
C17_DegenerateStepSkipped ==
    last.op = "or_set" =>
       LET d == last.pre.dict
           us == basis_of(VectorsOf(last.preOther.dict))
       IN  (\E i \in 1..Len(us) : Dot(us[i], us[i]) = Zero) =>
              /\ last.status = "ok"
              /\ Keys(ResultDict) = Keys(d)
              /\ \A i \in 1..Len(d) :
                    ResultDict[i][2].vector = orth_to_each(d[i][2].vector, us)

\* C18: the basis built inside self | other is u_1 = v_1 and u_i = v_i made
\* orthogonal to each of u_1, ..., u_(i-1), so that the u_i are pairwise
\* orthogonal, for every number of members of other.
C18_BasisPairwiseOrthogonal ==
    last.op = "or_set" =>
       LET vs == Values(last.preOther.dict)
           b == orth_away(vs)
       IN  b.status = "ok" =>
              /\ \A i \in 1..Len(vs) :
                    b.value[i].vector = basis_of(VectorsOf(last.preOther.dict))[i]
              /\ \A i, j \in 1..Len(vs) :
                    i # j => Dot(b.value[i].vector, b.value[j].vector) = Zero

\* The label the single-entity form gives when applied for each of the
\* entities us in turn, starting from the label acc.
RECURSIVE chain_label(_, _)
chain_label(acc, us) ==
    IF us = <<>> THEN acc
    ELSE chain_label("(" \o acc \o " | " \o us[1].name \o ")", Tail(us))

\* C19: the collection self | other returns for a collection other has the
\* keys of self in their order and a label made from the label of self, the
\* operator and the operands' names as the single-entity form makes it.
C19_LabelKeepsReceiver ==
    (last.op = "or_set" /\ last.status = "ok") =>
       /\ Keys(ResultDict) = Keys(last.pre.dict)
       /\ result.name
             = chain_label(last.pre.name, orth_away(Values(last.preOther.dict)).value)

\* The last place of the name k in names.
LastAt(names, k) ==
    CHOOSE i \in 1..Len(names) :
       names[i] = k /\ \A j \in 1..Len(names) : names[j] = k => j <= i

\* C20: from_names_X with a repeated name and as many vectors as names
\* raises no error: the collection has one entry for each distinct name,
\* holding the vector of the name's last occurrence, so it has fewer
\* members, and its matrix fewer rows, than vectors were given.
C20_RepeatedNamesCollapse ==
    (/\ last.op = "from_names_X"
     /\ Len(last.arg.names) = Len(last.arg.X)
     /\ \E i, j \in 1..Len(last.arg.names) :
           i # j /\ last.arg.names[i] = last.arg.names[j]) =>
       LET names == last.arg.names
           X == last.arg.X
           d == heap[self.embeddings]
       IN  /\ last.status = "ok"
           /\ ~IsNull(self)
           /\ KeySet(d) = {names[i] : i \in 1..Len(names)}
           /\ Len(d) = Cardinality(KeySet(d))
           /\ Len(d) < Len(names)
           /\ \A k \in KeySet(d) :
                 /\ Get(d, k).name = k
                 /\ Get(d, k).vector = X[LastAt(names, k)]
           /\ Len(to_X(d)) < Len(X)

\* C20 witness: one name given twice with two different vectors made a
\* collection of one member, holding the second vector.
C20_Witness ==
    /\ last.op = "from_names_X"
    /\ last.status = "ok"
    /\ Len(last.arg.names) = 2
    /\ last.arg.names[1] = last.arg.names[2]
    /\ last.arg.X[1] # last.arg.X[2]
    /\ Len(heap[self.embeddings]) = 1
    /\ heap[self.embeddings][1][2].vector = last.arg.X[2]

=============================================================================
